---- MODULE Spec2Model ----
(***************************************************************************)
(* Model of the cross-tab tool's front end: the data context               *)
(* (DataProvider, addCustomVariable), the Cross-tab builder                *)
(* (CrosstabBuilder, handleRunAnalysis) and the AI chat                    *)
(* (AIAgentChat, handleSendMessage).                                       *)
(*                                                                         *)
(* JavaScript values are records [t, n, s]: t is the typeof tag, n the     *)
(* number (or 1/0 of a boolean), s the string as a sequence of characters. *)
(* A string is a sequence of one-character strings, so that String(),      *)
(* Number(), === and includes() are computed as JavaScript computes them.  *)
(***************************************************************************)
EXTENDS Integers, Sequences, FiniteSets, TLC

VARIABLES
    \* ---- DataProvider (data-context.tsx:63-71)
    data,            \* any: null, an array of row records, or a crosstab result
    variables,       \* Variable[]
    isLoading,       \* boolean
    error,           \* string | null (any at run time)
    dataFile,        \* DataFile | null
    sampleData,      \* SampleData | null
    threw,           \* an event handler has ended by an uncaught exception
    held,            \* what a reader of data is left with: the array it read
    \* ---- CrosstabBuilder (variable-info-dialog.tsx:173-193)
    rowVariables, columnVariables, bannerVariables,
    customVariables, weightVar, subgroupVar, subgroupValues,
    availableSubgroupValues,
    activeTab,       \* AnalysisWorkspace's tab (analysis-workspace.tsx:23)
    reqs,            \* the calls of handleRunAnalysis awaiting api.post, in the order started
    calls,           \* what has become of every call of handleRunAnalysis
    \* ---- AIAgentChat (AIAgentChat.tsx:219-222)
    messages, input, aiLoading,
    aiReqs,          \* the calls of handleSendMessage, in the order started
    now,             \* Date.now(), in milliseconds
    ticks,           \* how many times the clock has advanced
    \* ---- FileUploader (file-uploader.tsx) and the context's flag it sets
    dataLoaded,      \* data-context.tsx:67
    uploads,         \* the files whose POST to /api/upload awaits its answer
    dropped,         \* the file last dropped on the dropzone
    toasted,         \* the title of the last toast
    \* ---- useStatisticalTests (lines 6-7 of the hook)
    loading, testError,
    tests,           \* the calls of performTest and what their promises became
    \* ---- DataProvider's other fields (data-context.tsx:70-71) and its consumers
    variableSummary, fileType,
    used,            \* what the last call of useData came to
    \* ---- the display options and the results
    rowPct,          \* CrosstabBuilder's Row % option (variable-info-dialog.tsx:181)
    tableTab,        \* ResultsViewer's table tab (analysis-workspace.tsx:345)
    crosstab         \* the cross-tab computed last

ctxVars == <<data, variables, isLoading, error, dataFile, sampleData, threw,
             held>>
builderVars == <<rowVariables, columnVariables, bannerVariables, customVariables,
                 weightVar, subgroupVar, subgroupValues, availableSubgroupValues,
                 activeTab, reqs, calls>>
chatVars == <<messages, input, aiLoading, aiReqs, now, ticks>>
uploadVars == <<dataLoaded, uploads, dropped, toasted>>
testVars == <<loading, testError, tests>>
provVars == <<variableSummary, fileType, used>>
viewVars == <<rowPct, tableTab, crosstab>>
vars == <<ctxVars, builderVars, chatVars, uploadVars, testVars, provVars,
          viewVars>>

-----------------------------------------------------------------------------
(* JavaScript values *)

JSNum(k) == [t |-> "number", n |-> k, s |-> <<>>]
JSStr(cs) == [t |-> "string", n |-> 0, s |-> cs]
JSBool(b) == [t |-> "boolean", n |-> IF b THEN 1 ELSE 0, s |-> <<>>]
JSNull == [t |-> "null", n |-> 0, s |-> <<>>]
JSUndefined == [t |-> "undefined", n |-> 0, s |-> <<>>]

\* A number as Number() returns it: NaN or an integer.
NaN == [nan |-> TRUE, n |-> 0]
Finite(k) == [nan |-> FALSE, n |-> k]

Digits == <<"0", "1", "2", "3", "4", "5", "6", "7", "8", "9">>

IsDigit(c) == \E d \in 1..10 : Digits[d] = c

DigitValue(c) == (CHOOSE d \in 1..10 : Digits[d] = c) - 1

RECURSIVE ParseDigits(_, _)
ParseDigits(cs, acc) ==
    IF cs = <<>> THEN acc
    ELSE ParseDigits(Tail(cs), acc * 10 + DigitValue(Head(cs)))

RECURSIVE TrimLeft(_)
TrimLeft(cs) ==
    IF cs # <<>> /\ Head(cs) = " " THEN TrimLeft(Tail(cs)) ELSE cs

RECURSIVE TrimRight(_)
TrimRight(cs) ==
    IF cs # <<>> /\ cs[Len(cs)] = " "
    THEN TrimRight(SubSeq(cs, 1, Len(cs) - 1))
    ELSE cs

\* Number(string): white space is trimmed, the empty string is 0, an optionally
\* signed run of digits is its value, anything else is NaN.
StringToNumber(cs) ==
    LET t == TrimRight(TrimLeft(cs))
        signed == t # <<>> /\ Head(t) \in {"-", "+"}
        body == IF signed THEN Tail(t) ELSE t
    IN  IF t = <<>> THEN Finite(0)
        ELSE IF body # <<>> /\ \A i \in 1..Len(body) : IsDigit(body[i])
        THEN Finite(IF Head(t) = "-" THEN 0 - ParseDigits(body, 0)
                    ELSE ParseDigits(body, 0))
        ELSE NaN

\* Number(value)
NumberOf(v) ==
    CASE v.t = "number" -> Finite(v.n)
      [] v.t = "string" -> StringToNumber(v.s)
      [] v.t = "boolean" -> Finite(v.n)
      [] v.t = "null" -> Finite(0)
      [] OTHER -> NaN

RECURSIVE DigitsOf(_)
DigitsOf(k) ==
    IF k < 10 THEN <<Digits[k + 1]>>
    ELSE Append(DigitsOf(k \div 10), Digits[(k % 10) + 1])

NumberToString(k) == IF k < 0 THEN <<"-">> \o DigitsOf(0 - k) ELSE DigitsOf(k)

\* String(value)
StringOf(v) ==
    CASE v.t = "number" -> NumberToString(v.n)
      [] v.t = "string" -> v.s
      [] v.t = "boolean" -> IF v.n = 1 THEN <<"t", "r", "u", "e">>
                            ELSE <<"f", "a", "l", "s", "e">>
      [] v.t = "null" -> <<"n", "u", "l", "l">>
      [] OTHER -> <<"u", "n", "d", "e", "f", "i", "n", "e", "d">>

\* a === b
StrictEquals(a, b) == a.t = b.t /\ a.n = b.n /\ a.s = b.s

\* hay.includes(needle)
Includes(hay, needle) ==
    \E i \in 0..(Len(hay) - Len(needle)) :
        SubSeq(hay, i + 1, i + Len(needle)) = needle

\* a > b on the results of Number(): false when either side is NaN
GreaterThan(a, b) == ~a.nan /\ ~b.nan /\ a.n > b.n

LessThan(a, b) == ~a.nan /\ ~b.nan /\ a.n < b.n

-----------------------------------------------------------------------------
(* Rows and conditions *)

\* row[column]: undefined when the row has no such key
Get(row, column) == IF column \in DOMAIN row THEN row[column] ELSE JSUndefined

\* { ...row, [name]: value }
With(row, name, value) ==
    [c \in DOMAIN row \cup {name} |-> IF c = name THEN value ELSE row[c]]

\* ConditionHolds with the two numeric comparisons exchanged
ConditionHolds_swapped(row, condition) ==
    LET value == Get(row, condition.column)
    IN  CASE condition.comparison = "equals" ->
                StrictEquals(value, condition.value)
          [] condition.comparison = "contains" ->
                Includes(StringOf(value), StringOf(condition.value))
          [] condition.comparison = "greater_than" ->
                LessThan(NumberOf(value), NumberOf(condition.value))
          [] condition.comparison = "less_than" ->
                GreaterThan(NumberOf(value), NumberOf(condition.value))
          [] OTHER -> FALSE

\* One condition of a custom variable on one row: the callback of every().
ConditionHolds(row, condition) ==
    LET value == Get(row, condition.column)
    IN  CASE condition.comparison = "equals" ->
                StrictEquals(value, condition.value)
          [] condition.comparison = "contains" ->
                Includes(StringOf(value), StringOf(condition.value))
          [] condition.comparison = "greater_than" ->
                GreaterThan(NumberOf(value), NumberOf(condition.value))
          [] condition.comparison = "less_than" ->
                LessThan(NumberOf(value), NumberOf(condition.value))
          [] OTHER -> FALSE

\* variable.conditions?.every(...): undefined (falsy) when conditions is missing
matchesConditions(variable, row) ==
    /\ variable.hasConditions
    /\ \A i \in 1..Len(variable.conditions) :
          ConditionHolds(row, variable.conditions[i])

\* One row of processedData
processRow(variable, row) ==
    With(row, variable.name,
         IF matchesConditions(variable, row) THEN JSNum(1) ELSE JSNum(0))

\* processedData with a row only for the rows that match the conditions
RECURSIVE processedData_matching(_, _)
processedData_matching(variable, rows) ==
    IF rows = <<>> THEN <<>>
    ELSE (IF matchesConditions(variable, Head(rows))
          THEN <<processRow(variable, Head(rows))>> ELSE <<>>)
             \o processedData_matching(variable, Tail(rows))

\* data.map(...) over an array of rows
processedData(variable, rows) ==
    [i \in 1..Len(rows) |-> processRow(variable, rows[i])]

-----------------------------------------------------------------------------
(* Bounds and the inputs the operations are tried on *)

MaxConds == 2       \* conditions of one custom variable
MaxCustom == 1      \* custom variables created

\* The characters of "50000", "60000", "1", "M" and "a"
S50000 == <<"5", "0", "0", "0", "0">>
S60000 == <<"6", "0", "0", "0", "0">>

\* Rows of the data sets: numbers, numeric and non-numeric strings, null, an
\* empty string, a boolean and a missing key in the income and gender columns.
RowOf(income, gender) ==
    [c \in {"income", "gender"} |-> IF c = "income" THEN income ELSE gender]

DataSets ==
    { <<RowOf(JSNum(60000), JSStr(<<"M">>)), RowOf(JSNum(40000), JSStr(<<"M">>))>>,
      <<RowOf(JSNum(40000), JSNum(1)), RowOf(JSNull, JSStr(<<"1">>))>>,
      <<RowOf(JSStr(<<>>), JSBool(TRUE)),
        [c \in {"income"} |-> JSStr(S60000)],
        RowOf(JSStr(<<"a">>), JSStr(<<"F">>))>>,
      <<>> }

Cond(column, comparison, value, operator) ==
    [column |-> column, comparison |-> comparison, value |-> value,
     operator |-> operator]

\* Conditions as the builder submits them (string values) and as a caller of
\* the context may pass them (a number as value).
Conditions ==
    { Cond("income", "greater_than", JSStr(S50000), "AND"),
      Cond("gender", "contains", JSStr(<<"M">>), "OR"),
      Cond("gender", "equals", JSStr(<<"1">>), "AND"),
      Cond("income", "less_than", JSStr(S50000), "OR"),
      Cond("income", "greater_than", JSStr(<<>>), "AND"),
      Cond("income", "greater_than", JSNum(50000), "AND") }

RECURSIVE SeqsUpTo(_, _)
SeqsUpTo(S, k) ==
    IF k = 0 THEN {<<>>}
    ELSE LET shorter == SeqsUpTo(S, k - 1)
         IN  shorter \cup {Append(q, x) : q \in shorter, x \in S}

\* The variables addCustomVariable is called with: a condition list of at most
\* MaxConds conditions, or no conditions field at all.
CustomVariableInputs ==
    {[name |-> "cv", type |-> "custom", hasConditions |-> TRUE, conditions |-> cs] :
        cs \in SeqsUpTo(Conditions, MaxConds)}
    \cup {[name |-> "cv", type |-> "custom", hasConditions |-> FALSE,
           conditions |-> <<>>]}

-----------------------------------------------------------------------------
(* The data context *)

\* error: null, or the value setError was called with (a string, or whatever
\* the server's detail was)
NoError == [t |-> "null", text |-> ""]
Message(text) == [t |-> "string", text |-> text]

\* dataFile and sampleData: null until a file has been uploaded
NoFile == [present |-> FALSE, name |-> "", filePath |-> "", id |-> ""]
NoSample == [present |-> FALSE, rows |-> <<>>]

\* The null of weightVar and subgroupVar
NullVar == "null"

\* A reader of data (a render of a component that called useData) keeps the
\* array it read.  rows is what that array holds now; sameArray and sameRows
\* tell whether the array and its row objects are still the ones data has.
NoHolder == [present |-> FALSE, rows |-> <<>>, sameArray |-> FALSE,
             sameRows |-> FALSE]

\* The reader's array once data is another array of other objects
Apart(h) == [h EXCEPT !.sameArray = FALSE, !.sameRows = FALSE]

\* The three shapes the data field takes
\* changed is kept for the claims: whether the form's selection differed from
\* the request's when the answer was handled
NoResult ==
    [req |-> 0, row_vars |-> <<>>, col_vars |-> <<>>, changed |-> FALSE,
     row_pct |-> FALSE]
NoData == [kind |-> "null", rows |-> <<>>, res |-> NoResult]
RowData(rows) == [kind |-> "rows", rows |-> rows, res |-> NoResult]

CustomCount == Cardinality({i \in 1..Len(variables) : variables[i].type = "custom"})

\* No cross-tab has been computed
NoCrossTab ==
    [rows |-> {}, cols |-> {}, table |-> <<>>, row_totals |-> <<>>,
     col_totals |-> <<>>, grand_total |-> 0]

\* variableSummary: null until it is set
NoSummary == [present |-> FALSE, stats |-> <<>>]

\* useData has not been called
NotUsed == [called |-> FALSE, provided |-> FALSE, thrown |-> FALSE, message |-> ""]

\* No file has been dropped yet
NoDrop == [name |-> <<>>, size |-> 0, type |-> ""]

\* DataProvider's initial state, and the initial state of the components
Init ==
    /\ data = NoData
    /\ variables = <<>>
    /\ isLoading = FALSE
    /\ error = NoError
    /\ dataFile = NoFile
    /\ sampleData = NoSample
    /\ threw = FALSE
    /\ held = NoHolder
    /\ rowVariables = <<>>
    /\ columnVariables = <<>>
    /\ bannerVariables = <<>>
    /\ customVariables = <<>>
    /\ weightVar = NullVar
    /\ subgroupVar = NullVar
    /\ subgroupValues = <<>>
    /\ availableSubgroupValues = <<>>
    /\ activeTab = "variables"
    /\ reqs = <<>>
    /\ calls = <<>>
    /\ messages = <<>>
    /\ input = <<>>
    /\ aiLoading = FALSE
    /\ aiReqs = <<>>
    /\ now = 0
    /\ ticks = 0
    /\ dataLoaded = FALSE
    /\ uploads = <<>>
    /\ dropped = NoDrop
    /\ toasted = ""
    /\ loading = FALSE
    /\ testError = NoError
    /\ tests = <<>>
    /\ variableSummary = NoSummary
    /\ fileType = NullVar
    /\ used = NotUsed
    /\ rowPct = TRUE
    /\ tableTab = "frequency"
    /\ crosstab = NoCrossTab

\* setData(rows): the context's setter, called with an array of rows
SetData(rows) ==
    /\ data' = RowData(rows)
    /\ held' = Apart(held)
    /\ UNCHANGED <<variables, isLoading, error, dataFile, sampleData, threw>>
    /\ UNCHANGED <<builderVars, chatVars, uploadVars, testVars, provVars, viewVars>>

\* heldAfter with the new key written into the row objects themselves
heldAfter_inPlace(variable) ==
    IF held.sameRows
    THEN [held EXCEPT !.rows = processedData(variable, held.rows)]
    ELSE held

\* What a reader is left with after the call: data.map returns a new array
\* and { ...row, ... } a new object for every row, so the reader's array and
\* rows are written by nothing and are no longer the ones data has.
heldAfter(variable) == Apart(held)

\* addCustomVariable(variable): the variable is appended; when data is set,
\* data.map builds the derived column.  A data that is no array has no map:
\* the call throws after the append has been queued.
addCustomVariable(variable) ==
    /\ variables' = Append(variables, variable)
    /\ CASE data.kind = "null" -> UNCHANGED <<data, threw, held>>
         [] data.kind = "rows" ->
               /\ data' = RowData(processedData(variable, data.rows))
               /\ held' = heldAfter(variable)
               /\ UNCHANGED threw
         [] OTHER -> /\ threw' = TRUE
                     /\ UNCHANGED <<data, held>>
    /\ UNCHANGED <<isLoading, error, dataFile, sampleData>>
    /\ UNCHANGED <<builderVars, chatVars, uploadVars, testVars, provVars, viewVars>>

AddCustomVariable ==
    \E variable \in CustomVariableInputs :
        /\ CustomCount < MaxCustom
        /\ addCustomVariable(variable)

LoadRows == \E rows \in DataSets : SetData(rows)

NextCV == LoadRows \/ AddCustomVariable

\* The custom variable evaluator: rows are loaded, variables are derived
SpecCV == Init /\ [][NextCV]_vars

-----------------------------------------------------------------------------
(* Claims about the custom variable evaluator (SpecCV) *)

\* A step of addCustomVariable on a loaded array of rows: the variable list
\* grows by the variable, which is its last element afterwards.
Derives == Len(variables') = Len(variables) + 1 /\ data.kind = "rows"

Added == variables'[Len(variables')]

\* The derived value row i has after the step
Derived(i) == data'.rows[i][Added.name]

\* The value a row gets for a truth value
Indicator(b) == IF b THEN JSNum(1) ELSE JSNum(0)

\* The fold the specification describes: the first condition seeds the result,
\* every later one is combined with the running result by its own operator.
RECURSIVE FoldConditions(_, _, _, _)
FoldConditions(conds, row, i, result) ==
    IF i > Len(conds) THEN result
    ELSE FoldConditions(conds, row, i + 1,
            IF conds[i].operator = "OR"
            THEN result \/ ConditionHolds(row, conds[i])
            ELSE result /\ ConditionHolds(row, conds[i]))

Folded(conds, row) == FoldConditions(conds, row, 2, ConditionHolds(row, conds[1]))

\* C1: addCustomVariable gives every row the value of the left-associative fold
\* of the variable's conditions, each combined by its own operator (AND or OR).
C1_LeftAssociativeFold ==
    [][(Derives /\ Added.hasConditions /\ Len(Added.conditions) >= 1) =>
          \A i \in 1..Len(data.rows) :
              Derived(i) = Indicator(Folded(Added.conditions, data.rows[i]))]_vars

\* A value that is a number or a string holding one
IsNumeric(v) ==
    \/ v.t = "number"
    \/ /\ v.t = "string"
       /\ TrimLeft(v.s) # <<>>
       /\ ~StringToNumber(v.s).nan

\* A step that derives a variable of exactly one condition, of this comparison
DerivesOne(comparisons) ==
    /\ Derives
    /\ Added.hasConditions
    /\ Len(Added.conditions) = 1
    /\ Added.conditions[1].comparison \in comparisons

\* C2: an equals condition is true for a row exactly when the row's raw value,
\* taken as a string, equals the comparison value string.
C2_EqualsComparesStrings ==
    [][DerivesOne({"equals"}) =>
          \A i \in 1..Len(data.rows) :
              Derived(i) = Indicator(
                  StringOf(Get(data.rows[i], Added.conditions[1].column))
                      = StringOf(Added.conditions[1].value))]_vars

\* C3: for the single condition [column greater_than v] with numeric v, a row
\* whose column value is a number gets 1 when that number is greater than v and
\* 0 when it is not, and every row's derived value is exactly 0 or 1.
C3_GreaterThanIndicator ==
    [][(DerivesOne({"greater_than"}) /\ IsNumeric(Added.conditions[1].value)) =>
          \A i \in 1..Len(data.rows) :
              LET value == Get(data.rows[i], Added.conditions[1].column)
                  v == NumberOf(Added.conditions[1].value).n
              IN  /\ Derived(i) \in {JSNum(0), JSNum(1)}
                  /\ value.t = "number" => Derived(i) = Indicator(value.n > v)]_vars

\* C3's case: income greater_than 50000 has been derived on a row of income
\* 60000, which got 1, and on a row of income 40000, which got 0.
C3_Witness ==
    /\ data.kind = "rows"
    /\ Len(variables) = 1
    /\ variables[1].hasConditions
    /\ Len(variables[1].conditions) = 1
    /\ variables[1].conditions[1].comparison = "greater_than"
    /\ variables[1].conditions[1].column = "income"
    /\ NumberOf(variables[1].conditions[1].value) = Finite(50000)
    /\ \E i, j \in 1..Len(data.rows) :
          /\ data.rows[i]["income"] = JSNum(60000)
          /\ Get(data.rows[i], "cv") = JSNum(1)
          /\ data.rows[j]["income"] = JSNum(40000)
          /\ Get(data.rows[j], "cv") = JSNum(0)

\* C4: a greater_than or less_than condition is false for a row whenever the
\* row's value or the comparison value is not numeric.
C4_NonNumericComparesFalse ==
    [][DerivesOne({"greater_than", "less_than"}) =>
          \A i \in 1..Len(data.rows) :
              (\/ ~IsNumeric(Get(data.rows[i], Added.conditions[1].column))
               \/ ~IsNumeric(Added.conditions[1].value))
                  => Derived(i) = JSNum(0)]_vars

-----------------------------------------------------------------------------
(* The uploader: what an upload leaves in the data context *)

Names(vs) == {vs[i].name : i \in 1..Len(vs)}

Column(name, type) ==
    [name |-> name, type |-> type, hasConditions |-> FALSE, conditions |-> <<>>]

\* The files of the model and what the upload of each one answers: its path on
\* the server, its variables, its sample rows.  The answer for c.csv carries
\* neither filepath nor file_id, and both fields are null.
Files == {"a.sav", "b.csv", "c.csv"}

\* The files of one column
OneColumnFiles == {"b.csv", "c.csv"}

FilePath(f) ==
    IF f = "a.sav" THEN "uploads\\a.sav"
    ELSE IF f = "b.csv" THEN "uploads/b.csv"
    ELSE ""

\* id: data.file_id || null
FileId(f) ==
    IF f = "a.sav" THEN "file-1"
    ELSE IF f = "b.csv" THEN "file-2"
    ELSE ""

\* filePath.replace(/\\/g, '/') on the paths of the model
Slashed(path) == IF path = "uploads\\a.sav" THEN "uploads/a.sav" ELSE path

\* The file the server keeps under a path
FileAt(path) == IF path = "uploads/a.sav" THEN "a.sav" ELSE "b.csv"

FileVariables(f) ==
    IF f = "a.sav" THEN <<Column("age", "numeric"), Column("sex", "categorical")>>
    ELSE <<Column("sex", "categorical")>>

FileSample(f) ==
    IF f = "a.sav"
    THEN <<[age |-> JSNum(30), sex |-> JSStr(<<"M">>)],
           [age |-> JSNum(30), sex |-> JSStr(<<"F">>)]>>
    ELSE <<[sex |-> JSStr(<<"F">>)]>>

\* The characters of the model's strings in the order of their code units
CharOrder ==
    <<" ", "+", "-", "0", "1", "2", "3", "4", "5", "6", "7", "8", "9",
      "F", "M", "a", "d", "e", "f", "i", "l", "n", "r", "s", "t", "u">>

CharCode(c) == CHOOSE i \in 1..Len(CharOrder) : CharOrder[i] = c

\* a < b as Array.prototype.sort orders strings
RECURSIVE StrLess(_, _)
StrLess(a, b) ==
    IF a = <<>> THEN b # <<>>
    ELSE IF b = <<>> THEN FALSE
    ELSE IF Head(a) = Head(b) THEN StrLess(Tail(a), Tail(b))
    ELSE CharCode(Head(a)) < CharCode(Head(b))

\* Array.from(new Set(...)).sort()
RECURSIVE SortedStrings(_)
SortedStrings(S) ==
    IF S = {} THEN <<>>
    ELSE LET least == CHOOSE x \in S : \A y \in S \ {x} : StrLess(x, y)
         IN  <<least>> \o SortedStrings(S \ {least})

\* The effect of CrosstabBuilder on [subgroupVar, sampleData]: the values the
\* subgroup variable takes in the sample rows
uniqueVals(var, sample) ==
    IF var # NullVar /\ sample.present
    THEN SortedStrings({StringOf(Get(sample.rows[i], var)) :
                           i \in 1..Len(sample.rows)})
    ELSE <<>>

\* onDrop, from the answer of the upload on: the context takes the file, its
\* variables and its sample rows; the new sampleData runs the builder's effect.
UpdateContext(f) ==
    /\ dataFile' = [present |-> TRUE, name |-> f, filePath |-> FilePath(f),
                     id |-> FileId(f)]
    /\ variables' = FileVariables(f)
    /\ sampleData' = [present |-> TRUE, rows |-> FileSample(f)]
    /\ availableSubgroupValues' = uniqueVals(subgroupVar, sampleData')
    /\ subgroupValues' = <<>>
    /\ dataLoaded' = TRUE
    /\ toasted' = "File uploaded successfully"
    /\ UNCHANGED <<data, isLoading, error, threw, held>>
    /\ UNCHANGED <<rowVariables, columnVariables, bannerVariables,
                   customVariables, weightVar, subgroupVar, activeTab, reqs,
                   calls>>
    /\ UNCHANGED <<chatVars, testVars, provVars, viewVars>>

\* The answer of an upload that is not followed in flight
UploadComplete(f) == UpdateContext(f) /\ UNCHANGED <<uploads, dropped>>

-----------------------------------------------------------------------------
(* CrosstabBuilder: the selections *)

MaxSel == 1

includes(list, x) == \E i \in 1..Len(list) : list[i] = x

\* list.filter(v => v !== x)
RECURSIVE filterOut(_, _)
filterOut(list, x) ==
    IF list = <<>> THEN <<>>
    ELSE IF Head(list) = x THEN filterOut(Tail(list), x)
    ELSE <<Head(list)>> \o filterOut(Tail(list), x)

addRowVariable(variable) ==
    /\ ~includes(rowVariables, variable)
    /\ Len(rowVariables) < MaxSel
    /\ rowVariables' = Append(rowVariables, variable)
    /\ UNCHANGED <<columnVariables, bannerVariables, customVariables, weightVar,
                   subgroupVar, subgroupValues, availableSubgroupValues,
                   activeTab, reqs, calls>>
    /\ UNCHANGED <<ctxVars, chatVars, uploadVars, testVars, provVars, viewVars>>

addColumnVariable(variable) ==
    /\ ~includes(columnVariables, variable)
    /\ Len(columnVariables) < MaxSel
    /\ columnVariables' = Append(columnVariables, variable)
    /\ UNCHANGED <<rowVariables, bannerVariables, customVariables, weightVar,
                   subgroupVar, subgroupValues, availableSubgroupValues,
                   activeTab, reqs, calls>>
    /\ UNCHANGED <<ctxVars, chatVars, uploadVars, testVars, provVars, viewVars>>

addBannerVariable(variable) ==
    /\ ~includes(bannerVariables, variable)
    /\ Len(bannerVariables) < MaxSel
    /\ bannerVariables' = Append(bannerVariables, variable)
    /\ UNCHANGED <<rowVariables, columnVariables, customVariables, weightVar,
                   subgroupVar, subgroupValues, availableSubgroupValues,
                   activeTab, reqs, calls>>
    /\ UNCHANGED <<ctxVars, chatVars, uploadVars, testVars, provVars, viewVars>>

removeRowVariable(variable) ==
    /\ rowVariables' = filterOut(rowVariables, variable)
    /\ UNCHANGED <<columnVariables, bannerVariables, customVariables, weightVar,
                   subgroupVar, subgroupValues, availableSubgroupValues,
                   activeTab, reqs, calls>>
    /\ UNCHANGED <<ctxVars, chatVars, uploadVars, testVars, provVars, viewVars>>

removeColumnVariable(variable) ==
    /\ columnVariables' = filterOut(columnVariables, variable)
    /\ UNCHANGED <<rowVariables, bannerVariables, customVariables, weightVar,
                   subgroupVar, subgroupValues, availableSubgroupValues,
                   activeTab, reqs, calls>>
    /\ UNCHANGED <<ctxVars, chatVars, uploadVars, testVars, provVars, viewVars>>

removeBannerVariable(variable) ==
    /\ bannerVariables' = filterOut(bannerVariables, variable)
    /\ UNCHANGED <<rowVariables, columnVariables, customVariables, weightVar,
                   subgroupVar, subgroupValues, availableSubgroupValues,
                   activeTab, reqs, calls>>
    /\ UNCHANGED <<ctxVars, chatVars, uploadVars, testVars, provVars, viewVars>>

\* The popovers list the context's variables; a badge's button removes the
\* name it shows.
AddRowVariable == \E v \in Names(variables) : addRowVariable(v)
AddColumnVariable == \E v \in Names(variables) : addColumnVariable(v)
AddBannerVariable == \E v \in Names(variables) : addBannerVariable(v)
RemoveRowVariable ==
    \E i \in 1..Len(rowVariables) : removeRowVariable(rowVariables[i])
RemoveColumnVariable ==
    \E i \in 1..Len(columnVariables) : removeColumnVariable(columnVariables[i])
RemoveBannerVariable ==
    \E i \in 1..Len(bannerVariables) : removeBannerVariable(bannerVariables[i])

\* The weight Select offers None and the numeric variables; onValueChange
\* is called when the value changes.
SetWeightVar ==
    \E val \in {"__none__"} \cup
               {variables[i].name :
                   i \in {j \in 1..Len(variables) : variables[j].type = "numeric"}} :
        LET chosen == IF val = "__none__" THEN NullVar ELSE val
        IN  /\ chosen # weightVar
            /\ weightVar' = chosen
            /\ UNCHANGED <<rowVariables, columnVariables, bannerVariables,
                           customVariables, subgroupVar, subgroupValues,
                           availableSubgroupValues, activeTab, reqs, calls>>
            /\ UNCHANGED <<ctxVars, chatVars, uploadVars, testVars, provVars, viewVars>>

\* SetSubgroupVar without the effect's setSubgroupValues([])
SetSubgroupVar_keepValues ==
    \E val \in {"__none__"} \cup Names(variables) :
        LET chosen == IF val = "__none__" THEN NullVar ELSE val
        IN  /\ chosen # subgroupVar
            /\ subgroupVar' = chosen
            /\ availableSubgroupValues' = uniqueVals(chosen, sampleData)
            /\ UNCHANGED <<rowVariables, columnVariables, bannerVariables,
                           customVariables, weightVar, subgroupValues,
                           activeTab, reqs, calls>>
            /\ UNCHANGED <<ctxVars, chatVars, uploadVars, testVars, provVars, viewVars>>

\* The subgroup Select offers None and every variable; the new subgroupVar
\* runs the effect, which lists the variable's values and clears the selection.
SetSubgroupVar ==
    \E val \in {"__none__"} \cup Names(variables) :
        LET chosen == IF val = "__none__" THEN NullVar ELSE val
        IN  /\ chosen # subgroupVar
            /\ subgroupVar' = chosen
            /\ availableSubgroupValues' = uniqueVals(chosen, sampleData)
            /\ subgroupValues' = <<>>
            /\ UNCHANGED <<rowVariables, columnVariables, bannerVariables,
                           customVariables, weightVar, activeTab, reqs, calls>>
            /\ UNCHANGED <<ctxVars, chatVars, uploadVars, testVars, provVars, viewVars>>

\* A click on the button of one of the available subgroup values
ToggleSubgroupValue ==
    \E i \in 1..Len(availableSubgroupValues) :
        LET val == availableSubgroupValues[i]
        IN  /\ subgroupVar # NullVar
            /\ subgroupValues' = IF includes(subgroupValues, val)
                                 THEN filterOut(subgroupValues, val)
                                 ELSE Append(subgroupValues, val)
            /\ UNCHANGED <<rowVariables, columnVariables, bannerVariables,
                           customVariables, weightVar, subgroupVar,
                           availableSubgroupValues, activeTab, reqs, calls>>
            /\ UNCHANGED <<ctxVars, chatVars, uploadVars, testVars, provVars, viewVars>>

\* CrosstabBuilder's handleCustomVariableCreated appends to the builder's own
\* customVariables.  Nothing in the builder renders a CustomVariableBuilder or
\* passes this handler on, so no action of the model calls it.
handleCustomVariableCreated(variable) ==
    /\ customVariables' = Append(customVariables, variable)
    /\ UNCHANGED <<rowVariables, columnVariables, bannerVariables, weightVar,
                   subgroupVar, subgroupValues, availableSubgroupValues,
                   activeTab, reqs, calls>>
    /\ UNCHANGED <<ctxVars, chatVars, uploadVars, testVars, provVars, viewVars>>

\* The variable submitted in the Variables section: sex equals "F"
SexIsF ==
    [name |-> "cv", type |-> "custom", hasConditions |-> TRUE,
     conditions |-> <<Cond("sex", "equals", JSStr(<<"F">>), "AND")>>]

\* AnalysisWorkspace's handleCustomVariableCreated: the Custom Variable Builder
\* of the Variables section hands its variable to the context.
CreateCustomVariable ==
    /\ CustomCount < MaxCustom
    /\ addCustomVariable(SexIsF)

-----------------------------------------------------------------------------
(* CrosstabBuilder: Run Analysis *)

MaxRuns == 2

\* canRunAnalysis without its test of the row variables
canRunAnalysis_noRowTest ==
    Len(columnVariables) > 0 \/ Len(bannerVariables) > 0

\* The Run Analysis button is disabled unless canRunAnalysis
canRunAnalysis ==
    Len(rowVariables) > 0
        /\ (Len(columnVariables) > 0 \/ Len(bannerVariables) > 0)

NoSubgroup == [present |-> FALSE, var |-> "", isList |-> FALSE, values |-> <<>>]

\* subgroup with the list of values sent whatever its length
subgroup_listAlways ==
    IF subgroupVar # NullVar /\ Len(subgroupValues) > 0
    THEN [present |-> TRUE, var |-> subgroupVar,
          isList |-> TRUE, values |-> subgroupValues]
    ELSE NoSubgroup

\* { [subgroupVar]: one value or the list of values }, or undefined
subgroup ==
    IF subgroupVar # NullVar /\ Len(subgroupValues) > 0
    THEN [present |-> TRUE, var |-> subgroupVar,
          isList |-> Len(subgroupValues) # 1, values |-> subgroupValues]
    ELSE NoSubgroup

\* weightVar || undefined
Undefined == "undefined"

\* The body of the POST to /api/analyze-crosstab
payload ==
    [file_path |-> Slashed(dataFile.filePath),
     row_vars |-> rowVariables,
     col_vars |-> columnVariables,
     display |-> [row_pct |-> rowPct],
     custom_variables |-> customVariables,
     weight_var |-> IF weightVar = NullVar THEN Undefined ELSE weightVar,
     subgroup |-> subgroup]

\* The column names a request body refers to
PayloadNames(p) ==
    {p.row_vars[i] : i \in 1..Len(p.row_vars)}
        \cup {p.col_vars[i] : i \in 1..Len(p.col_vars)}
        \cup (IF p.weight_var = Undefined THEN {} ELSE {p.weight_var})
        \cup (IF p.subgroup.present THEN {p.subgroup.var} ELSE {})

NoFileSelected == "No data file selected. Please upload a file first."

\* What has become of a call of handleRunAnalysis
Pending == "pending"
Succeeded == "ok"
Failed == "failed"

\* handleRunAnalysis up to its await.  Without a file path the call throws
\* before anything is sent: catch and finally run in the same turn, which ends
\* with the error set and isLoading false.  Otherwise the request is sent with
\* the row and column variables of this render.
handleRunAnalysis ==
    IF ~dataFile.present \/ dataFile.filePath = ""
    THEN /\ error' = Message(NoFileSelected)
         /\ isLoading' = FALSE
         /\ calls' = Append(calls, Failed)
         /\ UNCHANGED <<data, variables, dataFile, sampleData, threw, held>>
         /\ UNCHANGED <<rowVariables, columnVariables, bannerVariables,
                        customVariables, weightVar, subgroupVar, subgroupValues,
                        availableSubgroupValues, activeTab, reqs>>
         /\ UNCHANGED <<chatVars, uploadVars, testVars, provVars, viewVars>>
    ELSE /\ isLoading' = TRUE
         /\ error' = NoError
         /\ reqs' = Append(reqs, [id |-> Len(calls) + 1,
                                  payload |-> payload,
                                  rowVariables |-> rowVariables,
                                  columnVariables |-> columnVariables,
                                  known |-> PayloadNames(payload)
                                                \subseteq Names(variables)])
         /\ calls' = Append(calls, Pending)
         /\ UNCHANGED <<data, variables, dataFile, sampleData, threw, held>>
         /\ UNCHANGED <<rowVariables, columnVariables, bannerVariables,
                        customVariables, weightVar, subgroupVar, subgroupValues,
                        availableSubgroupValues, activeTab>>
         /\ UNCHANGED <<chatVars, uploadVars, testVars, provVars, viewVars>>

\* A click on Run Analysis: the button is enabled whenever canRunAnalysis,
\* also while an earlier request is loading.
RunAnalysis ==
    /\ canRunAnalysis
    /\ Len(calls) < MaxRuns
    /\ handleRunAnalysis

-----------------------------------------------------------------------------
(* The answers to a request, and the rest of handleRunAnalysis *)

\* A value of the error body: undefined, a string, an array or an object
Absent == [t |-> "undefined", text |-> ""]
List(text) == [t |-> "array", text |-> text]
Object(text) == [t |-> "object", text |-> text]

Truthy(v) == v.t \in {"array", "object"} \/ (v.t = "string" /\ v.text # "")

UnknownColumn == "Validation error: unknown column"
CodecDetail == "'utf-8' codec can't decode byte 0xff in position 0"
RefusedDetail == "connect ECONNREFUSED 127.0.0.1:5432"
NoDataReceived == "No data received from the server"
NoResponse == "No response from server. Please check if the backend is running."
UnableToRead ==
    "Unable to read the SPSS file. Please ensure the file is not corrupted and try again."
CannotConnect ==
    "Cannot connect to the server. Please ensure the backend is running."

\* What api.post settles with: a response with a body or without one, an error
\* with a response, an error without one
Ok == [kind |-> "ok", body |-> TRUE, status |-> "200", detail |-> Absent,
       message |-> Absent]
EmptyBody == [kind |-> "ok", body |-> FALSE, status |-> "200",
              detail |-> Absent, message |-> Absent]
ErrorResponse(status, detail, message) ==
    [kind |-> "error", body |-> TRUE, status |-> status, detail |-> detail,
     message |-> message]
NoResponseAtAll == [kind |-> "none", body |-> FALSE, status |-> "",
                    detail |-> Absent, message |-> Absent]

ValidationError == ErrorResponse("400", Message(UnknownColumn), Absent)

\* The columns the server resolves the names of a request in: the columns of
\* the file at file_path, augmented by the request's custom variables
Resolves(p) ==
    PayloadNames(p) \subseteq
        Names(FileVariables(FileAt(p.file_path))) \cup Names(p.custom_variables)

\* The server: a request naming an unknown column is answered with a
\* validation error.  Any request may go unanswered.
Answers(p) ==
    IF Resolves(p)
    THEN {Ok, EmptyBody, NoResponseAtAll,
          ErrorResponse("500", Message(CodecDetail), Absent),
          ErrorResponse("500", Message(RefusedDetail), Absent),
          ErrorResponse("422", List("value_error"), Absent),
          ErrorResponse("500", Object("error"), Absent),
          ErrorResponse("500", Absent, Message("Internal Server Error")),
          ErrorResponse("500", Absent, Absent)}
    ELSE {ValidationError, NoResponseAtAll}

\* text.includes(needle) on the messages of the model
Mentions(text, needle) ==
    \/ needle = "codec can't decode" /\ text = CodecDetail
    \/ needle = "ECONNREFUSED" /\ text = RefusedDetail

\* errorMessage of the catch block, with every field of the error replaced by
\* the status line
errorMessage_statusOnly(answer) ==
    IF answer.kind = "error" THEN Message("Server error: " \o answer.status)
    ELSE IF answer.kind = "none" THEN Message(NoResponse)
    ELSE Message(NoDataReceived)

\* errorMessage of the catch block
errorMessage(answer) ==
    IF answer.kind = "error"
    THEN IF Truthy(answer.detail) THEN answer.detail
         ELSE IF Truthy(answer.message) THEN answer.message
         ELSE Message("Server error: " \o answer.status)
    ELSE IF answer.kind = "none" THEN Message(NoResponse)
    ELSE Message(NoDataReceived)

\* The error the catch block leaves: errorMessage, or the friendlier text.
\* An array includes neither text; an object has no includes, and the call
\* throws with errorMessage set.
shownError(e) ==
    IF e.t = "string" /\ Mentions(e.text, "codec can't decode")
    THEN Message(UnableToRead)
    ELSE IF e.t = "string" /\ Mentions(e.text, "ECONNREFUSED")
    THEN Message(CannotConnect)
    ELSE e

\* The percentage tables of the answer to a request: those its display asks for
Percentages(p) == [row_pct |-> p.display.row_pct]

\* ResultOf with the row and column variables read when the answer is handled
ResultOf_current(r) ==
    [kind |-> "result", rows |-> <<>>,
     res |-> [req |-> r.id, row_vars |-> rowVariables,
              col_vars |-> columnVariables,
              changed |-> (r.rowVariables # rowVariables
                              \/ r.columnVariables # columnVariables),
              row_pct |-> Percentages(r.payload).row_pct]]

\* { ...res.data, row_vars: rowVariables, col_vars: columnVariables } with the
\* rowVariables and columnVariables of the render that was clicked
ResultOf(r) ==
    [kind |-> "result", rows |-> <<>>,
     res |-> [req |-> r.id, row_vars |-> r.rowVariables,
              col_vars |-> r.columnVariables,
              changed |-> (r.rowVariables # rowVariables
                              \/ r.columnVariables # columnVariables),
              row_pct |-> Percentages(r.payload).row_pct]]

Without(list, i) == SubSeq(list, 1, i - 1) \o SubSeq(list, i + 1, Len(list))

\* The try block gets past its throw: api.post resolved and res.data is set
Received(answer) == answer.kind = "ok" /\ answer.body

\* dataAfter with setData ahead of the test of res.data
dataAfter_beforeTest(r, answer) ==
    IF answer.kind = "ok" THEN ResultOf(r) ELSE data

\* The data the call leaves: setData is the statement after the test of
\* res.data, and the catch block has no setData
dataAfter(r, answer) == IF Received(answer) THEN ResultOf(r) ELSE data

\* The table tab of the ResultsViewer once the workspace shows tab: the viewer
\* is rendered in the results tab only, and a viewer that is mounted starts
\* with the frequency table
mountedTab(tab) ==
    IF tab = "results" /\ activeTab = "results" THEN tableTab ELSE "frequency"

\* isLoading if setIsLoading(false) closed the try block
loadingAfter_try(answer) == IF Received(answer) THEN FALSE ELSE isLoading

\* finally: setIsLoading(false), whatever the answer was
loadingAfter(answer) == FALSE

\* handleRunAnalysis from its await on, for the request at position i
Settle(i, answer) ==
    LET r == reqs[i]
    IN  /\ reqs' = Without(reqs, i)
        /\ isLoading' = loadingAfter(answer)
        /\ data' = dataAfter(r, answer)
        /\ IF Received(answer)
           THEN /\ activeTab' = "results"
                /\ tableTab' = mountedTab("results")
                /\ calls' = [calls EXCEPT ![r.id] = Succeeded]
                /\ UNCHANGED <<error, threw>>
           ELSE /\ error' = shownError(errorMessage(answer))
                /\ threw' = (threw \/ errorMessage(answer).t = "object")
                /\ calls' = [calls EXCEPT ![r.id] = Failed]
                /\ UNCHANGED <<activeTab, tableTab>>
        /\ UNCHANGED <<variables, dataFile, sampleData, held>>
        /\ UNCHANGED <<rowVariables, columnVariables, bannerVariables,
                       customVariables, weightVar, subgroupVar, subgroupValues,
                       availableSubgroupValues>>
        /\ UNCHANGED <<rowPct, crosstab>>
        /\ UNCHANGED <<chatVars, uploadVars, testVars, provVars>>

\* The requests in flight settle in any order
Response ==
    \E i \in 1..Len(reqs) : \E answer \in Answers(reqs[i].payload) :
        Settle(i, answer)

-----------------------------------------------------------------------------
(* The specifications of the builder *)

Upload == \E f \in Files : UploadComplete(f)

\* The form is filled and Run Analysis is clicked
FillForm ==
    /\ calls = <<>>
    /\ \/ Upload
       \/ RunAnalysis
       \/ CreateCustomVariable
       \/ AddRowVariable
       \/ AddColumnVariable
       \/ AddBannerVariable
       \/ RemoveRowVariable
       \/ RemoveColumnVariable
       \/ RemoveBannerVariable
       \/ SetWeightVar
       \/ SetSubgroupVar
       \/ ToggleSubgroupValue

NextBuilder == FillForm \/ Response

\* Every way of filling the builder's form, up to the first Run Analysis and
\* its answer
SpecBuilder == Init /\ [][NextBuilder]_vars

Next ==
    \/ \E f \in OneColumnFiles : UploadComplete(f)
    \/ AddRowVariable
    \/ AddColumnVariable
    \/ RemoveRowVariable
    \/ RemoveColumnVariable
    \/ RunAnalysis
    \/ Response

\* Run Analysis on one file, the form changing and requests overlapping
Spec == Init /\ [][Next]_vars

-----------------------------------------------------------------------------
(* Claims about the builder's form and what it sends (SpecBuilder) *)

\* A step that sends a request; the request is the last of reqs afterwards
Sends == Len(reqs') = Len(reqs) + 1

Sent == reqs'[Len(reqs')]

\* C5: every custom variable created through the Custom Variable Builder of
\* the Variables section is in the custom_variables of every crosstab request
\* sent afterwards.
C5_CustomVariablesSent ==
    [][Sends =>
          \A i \in 1..Len(variables) :
              variables[i].type = "custom"
                  => includes(Sent.payload.custom_variables, variables[i])]_vars

\* A step that settles the request at position i
Settles(i) == i \in 1..Len(reqs) /\ reqs' = Without(reqs, i)

C7_RowVarsNonEmpty ==
    \A i \in 1..Len(reqs) : reqs[i].payload.row_vars # <<>>

\* C7's case: a request has been sent from a form whose column list is empty
\* and whose banner list is not.
C7_Witness ==
    /\ Len(reqs) = 1
    /\ reqs[1].payload.row_vars # <<>>
    /\ reqs[1].payload.col_vars = <<>>
    /\ columnVariables = <<>>
    /\ bannerVariables # <<>>

-----------------------------------------------------------------------------
(* Claims about overlapping requests and failures (Spec) *)

\* C8: once no request is in flight, what is shown is the outcome of the call
\* of Run Analysis started last: its result with no error when it succeeded,
\* an error when it failed.
C8_LatestRequestShown ==
    (Len(calls) > 0 /\ reqs = <<>>) =>
        IF calls[Len(calls)] = Succeeded
        THEN error = NoError /\ data.kind = "result" /\ data.res.req = Len(calls)
        ELSE error # NoError

\* Call k of handleRunAnalysis fails in this step
FailsNow(k) ==
    /\ k \in 1..Len(calls')
    /\ calls'[k] = Failed
    /\ (k > Len(calls) \/ calls[k] = Pending)

\* C9: the step in which a call of handleRunAnalysis fails (error response, no
\* response, empty body, no file path) leaves data as it was and leaves a
\* non-null error.
C9_FailureStoresNothing ==
    [][\A k \in 1..Len(calls') :
          FailsNow(k) => data' = data /\ error' # NoError /\ Truthy(error')]_vars

\* C9's case: a first request has stored its result, a second call has failed
\* and the result of the first is still the data.
C9_Witness ==
    /\ Len(calls) = 2
    /\ calls[1] = Succeeded
    /\ calls[2] = Failed
    /\ reqs = <<>>
    /\ data.kind = "result"
    /\ data.res.req = 1
    /\ error # NoError

-----------------------------------------------------------------------------
(* AIAgentChat: handleSendMessage *)

MaxSends == 2
MaxTicks == 3

\* The delay of setTimeout, in milliseconds
Timeout == 30000

Analyzing == "I'm analyzing your data. This may take a few moments..."
TakingTooLong ==
    "Sorry, the analysis is taking too long. Please try again or check your data."
TimedOut == "Sorry, the analysis timed out. Please try again or check your data."
Encountered ==
    "Sorry, I encountered an error while analyzing your data. Please try again."
FailedToAnalyze == "Failed to analyze data"

\* The texts typed into the input
Inputs == {<<>>, <<" ">>, <<"a", "g", "e">>}

\* input.trim()
trim(cs) == TrimRight(TrimLeft(cs))

\* prev.map(msg => msg.id === id ? { ...msg, text, status } : msg)
Rewritten(prev, id, text, status) ==
    [k \in 1..Len(prev) |->
        IF prev[k].id = id
        THEN [prev[k] EXCEPT !.text = text, !.status = status]
        ELSE prev[k]]

chatRest == <<ctxVars, builderVars, uploadVars, testVars, provVars, viewVars>>

TypeInput ==
    \E text \in Inputs :
        /\ text # input
        /\ input' = text
        /\ UNCHANGED <<messages, aiLoading, aiReqs, now, ticks>>
        /\ UNCHANGED chatRest

\* handleSendMessage up to its await, called by the Enter key at any time and
\* by the Send button unless isLoading
handleSendMessage ==
    /\ trim(input) # <<>>
    /\ dataFile.present
    /\ dataFile.id # ""
    /\ messages' = messages \o
          <<[id |-> now, text |-> "input", sender |-> "user",
             timestamp |-> now, status |-> "none"],
            [id |-> now + 1, text |-> Analyzing, sender |-> "agent",
             timestamp |-> now, status |-> "loading"]>>
    /\ input' = <<>>
    /\ aiLoading' = TRUE
    /\ aiReqs' = Append(aiReqs, [id |-> now + 1, due |-> now + Timeout,
                                 timer |-> TRUE, pc |-> "fetch"])
    /\ UNCHANGED <<now, ticks>>
    /\ UNCHANGED chatRest

SendMessage ==
    /\ Len(messages) < 2 * MaxSends
    /\ handleSendMessage

\* The callback of setTimeout: the fetch is aborted, the message is an error
TimerFires(i) ==
    /\ aiReqs[i].timer
    /\ now >= aiReqs[i].due
    /\ messages' = Rewritten(messages, aiReqs[i].id, TakingTooLong, "error")
    /\ aiLoading' = FALSE
    /\ aiReqs' = [aiReqs EXCEPT ![i].timer = FALSE, ![i].pc = "aborted"]
    /\ UNCHANGED <<input, now, ticks>>
    /\ UNCHANGED chatRest

\* fetch resolves once the response's head has arrived: the timer is cleared
\* and the body is awaited
FetchResolves(i, ok) ==
    /\ aiReqs[i].pc = "fetch"
    /\ aiReqs' = [aiReqs EXCEPT ![i].timer = FALSE,
                                ![i].pc = IF ok THEN "json" ELSE "errorJson"]
    /\ UNCHANGED <<messages, input, aiLoading, now, ticks>>
    /\ UNCHANGED chatRest

\* The end of a call: catch or the rest of try, then finally
Ends(i, text, status) ==
    /\ messages' = Rewritten(messages, aiReqs[i].id, text, status)
    /\ aiLoading' = FALSE
    /\ aiReqs' = Without(aiReqs, i)
    /\ UNCHANGED <<input, now, ticks>>
    /\ UNCHANGED chatRest

\* fetch rejects: the network failed, or the timer aborted the request
FetchRejects(i) ==
    \/ aiReqs[i].pc = "fetch" /\ Ends(i, Encountered, "error")
    \/ aiReqs[i].pc = "aborted" /\ Ends(i, TimedOut, "error")

\* response.json() resolves
BodyResolves(i) ==
    \/ aiReqs[i].pc = "json" /\ Ends(i, "explanation", "success")
    \/ aiReqs[i].pc = "errorJson" /\ Ends(i, "detail", "error")

\* response.json() rejects
BodyRejects(i) ==
    \/ aiReqs[i].pc = "json" /\ Ends(i, Encountered, "error")
    \/ aiReqs[i].pc = "errorJson" /\ Ends(i, FailedToAnalyze, "error")

\* Time passes, but not beyond the moment a timer is due
Tick ==
    \E d \in {1, Timeout} :
        /\ ticks < MaxTicks
        /\ \A i \in 1..Len(aiReqs) : aiReqs[i].timer => now + d <= aiReqs[i].due
        /\ now' = now + d
        /\ ticks' = ticks + 1
        /\ UNCHANGED <<messages, input, aiLoading, aiReqs>>
        /\ UNCHANGED chatRest

TimerFire == \E i \in 1..Len(aiReqs) : TimerFires(i)
FetchResolve == \E i \in 1..Len(aiReqs) : \E ok \in BOOLEAN : FetchResolves(i, ok)
FetchReject == \E i \in 1..Len(aiReqs) : FetchRejects(i)
BodyResolve == \E i \in 1..Len(aiReqs) : BodyResolves(i)
BodyReject == \E i \in 1..Len(aiReqs) : BodyRejects(i)

NextAI ==
    \/ \E f \in OneColumnFiles : UploadComplete(f)
    \/ TypeInput
    \/ SendMessage
    \/ Tick
    \/ TimerFire
    \/ FetchResolve
    \/ FetchReject
    \/ BodyResolve
    \/ BodyReject

\* The assistant's chat on an uploaded file
SpecAI == Init /\ [][NextAI]_vars

-----------------------------------------------------------------------------
(* Claims about the assistant (SpecAI) *)

\* C10: no message is loading more than 30 seconds after it was sent.
C10_LoadingBoundedByTimeout ==
    \A k \in 1..Len(messages) :
        messages[k].status = "loading" => now - messages[k].timestamp <= Timeout

-----------------------------------------------------------------------------
(* Claims about the stored result (Spec) *)

\* C11: the row_vars and col_vars stored with a result are those of the request
\* whose answer it is, whatever the form's selection is when the answer comes.
C11_ResultKeepsRequestVars ==
    [][\A i \in 1..Len(reqs) :
          (Settles(i) /\ calls'[reqs[i].id] = Succeeded) =>
              /\ data'.kind = "result"
              /\ data'.res.req = reqs[i].id
              /\ data'.res.row_vars = reqs[i].payload.row_vars
              /\ data'.res.col_vars = reqs[i].payload.col_vars]_vars

\* C11's case: a result is stored whose request was answered after the user
\* had changed the selection, and it carries the variables of the request.
C11_Witness ==
    /\ data.kind = "result"
    /\ data.res.changed
    /\ data.res.row_vars # <<>>

-----------------------------------------------------------------------------
(* addCustomVariable as the context exports it: any caller, any variable *)

MaxDerived == 2

\* A condition as addCondition creates it, submitted with no column chosen
UnsetColumn == Cond("", "equals", JSStr(<<>>), "AND")

\* conditions is any[]: a comparison that is none of the four of the switch
OtherComparison == Cond("gender", "not_equals", JSStr(<<"F">>), "AND")

\* The condition lists of the variables passed to the context
DerivedConditions ==
    { <<UnsetColumn>>,
      <<OtherComparison>>,
      <<Cond("region", "contains", JSStr(<<"e">>), "AND")>>,
      <<Cond("income", "greater_than", JSStr(S50000), "AND")>>,
      <<>> }

\* The variables passed to the context: a new name or the name of a column
\* the rows have, with one of the condition lists or with no conditions field
DerivedInputs ==
    {[name |-> n, type |-> "custom", hasConditions |-> TRUE, conditions |-> cs] :
        n \in {"cv", "income"}, cs \in DerivedConditions}
    \cup {[name |-> "cv", type |-> "custom", hasConditions |-> FALSE,
           conditions |-> <<>>]}

DeriveVariable ==
    \E variable \in DerivedInputs :
        /\ Len(variables) < MaxDerived
        /\ addCustomVariable(variable)

\* A render reads data from the context and keeps the array
Hold ==
    /\ data.kind = "rows"
    /\ held' = [present |-> TRUE, rows |-> data.rows, sameArray |-> TRUE,
                sameRows |-> TRUE]
    /\ UNCHANGED <<data, variables, isLoading, error, dataFile, sampleData, threw>>
    /\ UNCHANGED <<builderVars, chatVars, uploadVars, testVars, provVars, viewVars>>

NextDerive == LoadRows \/ Hold \/ DeriveVariable

\* Rows are loaded, read and derived from
SpecDerive == Init /\ [][NextDerive]_vars

-----------------------------------------------------------------------------
(* Claims about addCustomVariable as exported (SpecDerive, SpecCV) *)

\* The columns the rows of an array have
ColumnsOf(rows) == UNION {DOMAIN rows[i] : i \in 1..Len(rows)}

\* The call leaves no derived column and reports an error
Rejected == data' = data /\ (error' # NoError \/ threw')

\* C12: addCustomVariable with a condition on a column that is neither in the
\* rows nor in the variable list fails: an error is reported and no derived
\* column is added.
C12_UnknownColumnRejected ==
    [][(/\ Derives
        /\ Len(data.rows) > 0
        /\ Added.name \notin ColumnsOf(data.rows)
        /\ \E k \in 1..Len(Added.conditions) :
              Added.conditions[k].column
                  \notin ColumnsOf(data.rows) \cup Names(variables))
          => Rejected]_vars

\* C13: addCustomVariable keeps the names of the variable list unique, and
\* every column the rows had keeps its value in every row.
C13_NamesStayUnique ==
    [][Derives =>
          /\ Cardinality(Names(variables')) = Len(variables')
          /\ \A i \in 1..Len(data.rows) : \A c \in DOMAIN data.rows[i] :
                Get(data'.rows[i], c) = data.rows[i][c]]_vars

\* C14: addCustomVariable with a condition whose comparison is not equals,
\* contains, greater_than or less_than is rejected.
C14_OtherComparisonRejected ==
    [][(/\ Derives
        /\ Len(data.rows) > 0
        /\ Added.name \notin ColumnsOf(data.rows)
        /\ \E k \in 1..Len(Added.conditions) :
              Added.conditions[k].comparison
                  \notin {"equals", "contains", "greater_than", "less_than"})
          => Rejected]_vars

\* C15: addCustomVariable writes neither the array a reader holds nor its
\* rows: the reader's rows are what they were, and the array and the rows data
\* has afterwards are new ones.
C15_CopyOnAppend ==
    [][(Derives /\ held.present) =>
          /\ held'.rows = held.rows
          /\ ~held'.sameArray
          /\ ~held'.sameRows
          /\ \A i \in 1..Len(data'.rows) : Added.name \in DOMAIN data'.rows[i]]_vars

\* C15's case: a reader holds the rows as they were before cv was derived,
\* without cv, and data is another array whose rows have cv.
C15_Witness ==
    /\ held.present
    /\ ~held.sameArray
    /\ data.kind = "rows"
    /\ Len(variables) = 1
    /\ Len(held.rows) > 0
    /\ Len(data.rows) = Len(held.rows)
    /\ \A i \in 1..Len(held.rows) :
          /\ "cv" \notin DOMAIN held.rows[i]
          /\ "cv" \in DOMAIN data.rows[i]
          /\ data.rows[i] = With(held.rows[i], "cv", data.rows[i]["cv"])

\* C16: addCustomVariable on N rows leaves N rows in the same order, each with
\* 0 or 1 for the new variable and with its other columns as they were, for
\* every condition list, an empty or a missing one included.
C16_RowCountPreserved ==
    [][Derives =>
          /\ Len(data'.rows) = Len(data.rows)
          /\ \A i \in 1..Len(data.rows) :
                /\ Added.name \in DOMAIN data'.rows[i]
                /\ data'.rows[i][Added.name] \in {JSNum(0), JSNum(1)}
                /\ \A c \in DOMAIN data.rows[i] \ {Added.name} :
                      Get(data'.rows[i], c) = data.rows[i][c]]_vars

\* C16's case: a variable with no conditions field has been derived on three
\* rows, and each of the three has 0 for it.
C16_Witness ==
    /\ data.kind = "rows"
    /\ Len(data.rows) = 3
    /\ Len(variables) = 1
    /\ ~variables[1].hasConditions
    /\ \A i \in 1..3 : Get(data.rows[i], "cv") = JSNum(0)

-----------------------------------------------------------------------------
(* The subgroup field of a request *)

\* C17: the subgroup field of a request is present exactly when a subgroup
\* variable is selected and at least one of its values is selected; it then
\* maps that variable to the one selected value when exactly one is selected,
\* and to the list of all selected values otherwise.
C17_SubgroupField ==
    [][Sends =>
          LET s == Sent.payload.subgroup
          IN  /\ s.present <=> (subgroupVar # NullVar /\ Len(subgroupValues) > 0)
              /\ s.present =>
                    /\ s.var = subgroupVar
                    /\ s.values = subgroupValues
                    /\ s.isList <=> Len(subgroupValues) # 1]_vars

\* C17's case: a request sent with both values of sex selected carries the
\* list of the two, in the order they were selected
C17_Witness ==
    \E i \in 1..Len(reqs) :
        LET s == reqs[i].payload.subgroup
        IN  /\ s.present
            /\ s.var = "sex"
            /\ s.isList
            /\ Len(s.values) = 2
            /\ s.values[1] # s.values[2]

-----------------------------------------------------------------------------
(* The weight variable of a request *)

\* The numeric columns of the dataset the context holds
NumericColumns ==
    {variables[i].name :
        i \in {j \in 1..Len(variables) : variables[j].type = "numeric"}}

\* C18: the weight_var of every request that is sent is absent or the name
\* of a numeric column of the dataset.
C18_WeightVarNumeric ==
    [][Sends =>
          \/ Sent.payload.weight_var = Undefined
          \/ Sent.payload.weight_var \in NumericColumns]_vars

-----------------------------------------------------------------------------
(* FileUploader: what a drop does with the file *)

MaxUploads == 2

\* maxSize: 50 * 1024 * 1024, the option given to useDropzone
maxSize == 52428800

\* 50 * 1024 * 1024, the limit onDrop tests
SizeLimit == 52428800

SavFile == <<"a", ".", "s", "a", "v">>
CsvFileUpper == <<"b", ".", "C", "S", "V">>
NoDotFile == <<"s", "a", "v">>
TextFile == <<"n", ".", "t", "x", "t">>

\* The files a user drops: a name, a size in bytes and the type the browser
\* gives the file
DroppedFiles ==
    [name : {SavFile, CsvFileUpper, NoDotFile, TextFile},
     size : {1024, SizeLimit, SizeLimit + 1},
     type : {"", "application/octet-stream", "text/csv"}]

\* String.prototype.toLowerCase on the characters of the model's names
Lower(c) ==
    CASE c = "C" -> "c"
      [] c = "S" -> "s"
      [] c = "V" -> "v"
      [] OTHER -> c

toLowerCase(name) == [i \in 1..Len(name) |-> Lower(name[i])]

\* name.split('.').pop(): what follows the last '.', the whole name when it
\* has none
RECURSIVE lastSegment(_)
lastSegment(name) ==
    IF name = <<>> THEN <<>>
    ELSE IF name[Len(name)] = "." THEN <<>>
    ELSE Append(lastSegment(SubSeq(name, 1, Len(name) - 1)), name[Len(name)])

\* file.name.toLowerCase().split('.').pop() || ''
fileExtension(file) == lastSegment(toLowerCase(file.name))

endsWith(name, suffix) ==
    /\ Len(name) >= Len(suffix)
    /\ SubSeq(name, Len(name) - Len(suffix) + 1, Len(name)) = suffix

\* The name as one string
RECURSIVE Joined(_)
Joined(name) ==
    IF name = <<>> THEN "" ELSE name[1] \o Joined(SubSeq(name, 2, Len(name)))

\* useDropzone's accept: a file passes when its type is one of the accepted
\* types or its name ends with one of the accepted extensions
fileAccepted(file) ==
    \/ file.type \in {"application/octet-stream", "text/csv"}
    \/ endsWith(toLowerCase(file.name), <<".", "s", "a", "v">>)
    \/ endsWith(toLowerCase(file.name), <<".", "c", "s", "v">>)

\* useDropzone's maxSize
fileMatchSize(file) == file.size <= maxSize

\* What the dropzone hands to onDrop
acceptedFiles(file) ==
    IF fileAccepted(file) /\ fileMatchSize(file) THEN <<file>> ELSE <<>>

\* The uploader leaves the context and the other components as they are
uploaderRest ==
    <<data, variables, isLoading, error, dataFile, sampleData, threw, held,
      dataLoaded, builderVars, chatVars, testVars, provVars, viewVars>>

\* onDrop up to the POST: without a file it returns; a name whose last segment
\* is neither sav nor csv, or a size above the limit, is toasted and nothing
\* is sent; otherwise the file is posted to /api/upload.
onDrop(accepted) ==
    IF accepted = <<>>
    THEN UNCHANGED <<uploads, toasted, uploaderRest>>
    ELSE LET file == accepted[1]
         IN  IF fileExtension(file) \notin {<<"s", "a", "v">>, <<"c", "s", "v">>}
             THEN /\ toasted' = "Invalid file type"
                  /\ UNCHANGED <<uploads, uploaderRest>>
             ELSE IF file.size > SizeLimit
             THEN /\ toasted' = "File too large"
                  /\ UNCHANGED <<uploads, uploaderRest>>
             ELSE /\ uploads' = Append(uploads, file)
                  /\ UNCHANGED <<toasted, uploaderRest>>

\* A file is dropped on the dropzone
Drop ==
    \E file \in DroppedFiles :
        /\ Len(uploads) < MaxUploads
        /\ dropped' = file
        /\ onDrop(acceptedFiles(file))

\* An upload is answered with the file's metadata: onDrop goes on and updates
\* the context
UploadAnswered ==
    \E i \in 1..Len(uploads) :
        /\ UpdateContext(Joined(uploads[i].name))
        /\ uploads' = Without(uploads, i)
        /\ UNCHANGED dropped

\* An upload fails (no answer, or an answer that is not ok): onDrop's catch
UploadFailed ==
    \E i \in 1..Len(uploads) :
        /\ uploads' = Without(uploads, i)
        /\ toasted' = "Upload failed"
        /\ UNCHANGED <<dropped, uploaderRest>>

NextUpload == Drop \/ UploadAnswered \/ UploadFailed

SpecUpload == Init /\ [][NextUpload]_vars

\* A step in which a file is dropped
Drops == dropped' # dropped \/ Len(uploads') = Len(uploads) + 1

\* An SPSS (.sav) or CSV (.csv) file of at most 50MB
IsDataFile(file) ==
    /\ \/ endsWith(toLowerCase(file.name), <<".", "s", "a", "v">>)
       \/ endsWith(toLowerCase(file.name), <<".", "c", "s", "v">>)
    /\ file.size <= 50 * 1024 * 1024

\* C19: a dropped file that is not a .sav or .csv file of at most 50MB is not
\* uploaded: no upload request is sent, and dataFile, dataLoaded, variables
\* and sampleData stay as they are.
C19_OnlyDataFilesUploaded ==
    [][(Drops /\ ~IsDataFile(dropped')) =>
          /\ uploads' = uploads
          /\ UNCHANGED <<dataFile, dataLoaded, variables, sampleData>>]_vars

-----------------------------------------------------------------------------
(* useStatisticalTests: performTest *)

MaxTests == 3

TestFallback == "An error occurred during statistical testing"

\* What axios.post('/api/statistical-test') comes to: a response with its
\* data, or something thrown, an Error with its message or another value
Response200(body) == [ok |-> TRUE, data |-> body, isError |-> FALSE, message |-> ""]
ThrownError(message) == [ok |-> FALSE, data |-> "null", isError |-> TRUE, message |-> message]
ThrownValue == [ok |-> FALSE, data |-> "null", isError |-> FALSE, message |-> ""]

TestAnswers ==
    {Response200("result"), Response200("null"),
     ThrownError("Network Error"),
     ThrownError(""),
     ThrownError("Request failed with status code 500"),
     ThrownValue}

NoAnswer == [ok |-> FALSE, data |-> "null", isError |-> FALSE, message |-> "none"]

\* A call of performTest awaiting axios.post
PendingTest == [state |-> "pending", value |-> "null", answer |-> NoAnswer]

\* What the promise of performTest would become if the catch threw the error
\* on
promiseAfter_rethrown(answer) ==
    IF answer.ok
    THEN [state |-> "fulfilled", value |-> answer.data, answer |-> answer]
    ELSE [state |-> "rejected", value |-> "null", answer |-> answer]

\* What the promise of performTest becomes: return response.data in the try,
\* return null in the catch
promiseAfter(answer) ==
    [state |-> "fulfilled",
     value |-> IF answer.ok THEN answer.data ELSE "null",
     answer |-> answer]

\* error after the call has settled: the catch sets it, the try leaves it
errorAfter(answer) ==
    IF answer.ok THEN testError
    ELSE Message(IF answer.isError THEN answer.message ELSE TestFallback)

\* performTest up to the await: setLoading(true), setError(null), axios.post
performTest ==
    /\ Len(tests) < MaxTests
    /\ loading' = TRUE
    /\ testError' = NoError
    /\ tests' = Append(tests, PendingTest)
    /\ UNCHANGED <<ctxVars, builderVars, chatVars, uploadVars, provVars>>
    /\ UNCHANGED <<rowPct, tableTab>>

\* performTest from the await on: try or catch, then finally
TestSettled ==
    \E i \in 1..Len(tests) : \E answer \in TestAnswers :
        /\ tests[i].state = "pending"
        /\ tests' = [tests EXCEPT ![i] = promiseAfter(answer)]
        /\ testError' = errorAfter(answer)
        /\ loading' = FALSE
        /\ UNCHANGED <<ctxVars, builderVars, chatVars, uploadVars, provVars, viewVars>>

\* performTest is called with the cross-tab at hand
PerformTest == performTest /\ UNCHANGED crosstab

NextTest == PerformTest \/ TestSettled

SpecTest == Init /\ [][NextTest]_vars

\* The call at position i settles in this step
TestSettles(i) ==
    /\ i \in 1..Len(tests)
    /\ tests[i].state = "pending"
    /\ tests'[i].state # "pending"

\* C20: performTest never rejects: when the request succeeds its promise is
\* fulfilled with the response's data, when the request fails it is fulfilled
\* with null and error is a message, not null; loading is false once the call
\* has settled.
C20_PerformTestNeverRejects ==
    [][\A i \in 1..Len(tests) :
          TestSettles(i) =>
              LET call == tests'[i]
              IN  /\ call.state = "fulfilled"
                  /\ ~loading'
                  /\ IF call.answer.ok
                     THEN call.value = call.answer.data
                     ELSE /\ call.value = "null"
                          /\ testError' # NoError
                          /\ testError'.t = "string"]_vars

\* C20's case: a call whose request failed has been fulfilled with null, error
\* is the message of what was thrown, and loading is false while another call
\* is still awaiting its answer
C20_Witness ==
    /\ ~loading
    /\ testError = Message("Network Error")
    /\ \E i \in 1..Len(tests) :
          /\ tests[i].state = "fulfilled"
          /\ ~tests[i].answer.ok
          /\ tests[i].value = "null"
    /\ \E j \in 1..Len(tests) : tests[j].state = "pending"

-----------------------------------------------------------------------------
(* DataProvider and useData *)

\* useContext(DataContext): the value of the nearest DataProvider above the
\* component, or createContext's default, undefined, when there is none
useContext(provided) == [defined |-> provided]

MustBeUsedWithin == "useData must be used within a DataProvider"

\* useData if it handed the undefined context on
useData_returning(context) ==
    [called |-> TRUE, provided |-> context.defined, thrown |-> FALSE,
     message |-> ""]

\* useData: throws when the context is undefined, returns it otherwise
useData(context) ==
    IF ~context.defined
    THEN [called |-> TRUE, provided |-> FALSE, thrown |-> TRUE,
          message |-> MustBeUsedWithin]
    ELSE [called |-> TRUE, provided |-> TRUE, thrown |-> FALSE, message |-> ""]

\* A component calls useData, with or without a DataProvider above it
UseData ==
    \E provided \in BOOLEAN :
        /\ used' = useData(useContext(provided))
        /\ UNCHANGED <<variableSummary, fileType>>
        /\ UNCHANGED <<ctxVars, builderVars, chatVars, uploadVars, testVars,
                       viewVars>>

\* The values the setters are called with
SampleInputs ==
    {NoSample,
     [present |-> TRUE, rows |-> <<[test |-> JSNum(1)]>>],
     [present |-> TRUE, rows |-> FileSample("a.sav")],
     [present |-> TRUE, rows |-> FileSample("b.csv")]}

SummaryInputs ==
    {NoSummary,
     [present |-> TRUE, stats |-> <<>>],
     [present |-> TRUE, stats |-> <<[name |-> "test", min |-> 0, max |-> 1, missing |-> 0]>>],
     [present |-> TRUE, stats |-> <<[name |-> "age", min |-> 30, max |-> 30, missing |-> 1]>>]}

\* What setSampleData leaves alone, the builder's effect on sampleData aside
sampleRest ==
    <<data, variables, isLoading, error, dataFile, threw, held, dataLoaded,
      variableSummary, fileType>>

\* setSampleData if it also marked the data as loaded
setSampleData_loaded(x) ==
    /\ sampleData' = x
    /\ dataLoaded' = TRUE
    /\ availableSubgroupValues' = uniqueVals(subgroupVar, sampleData')
    /\ subgroupValues' = <<>>
    /\ UNCHANGED <<data, variables, isLoading, error, dataFile, threw, held,
                   variableSummary, fileType>>

\* setSampleData: the state setter of sampleData; a mounted builder's effect on
\* [subgroupVar, sampleData] follows it
setSampleData(x) ==
    /\ sampleData' = x
    /\ availableSubgroupValues' = uniqueVals(subgroupVar, sampleData')
    /\ subgroupValues' = <<>>
    /\ UNCHANGED sampleRest

SetSampleData ==
    \E x \in SampleInputs :
        /\ setSampleData(x)
        /\ UNCHANGED <<rowVariables, columnVariables, bannerVariables,
                       customVariables, weightVar, subgroupVar, activeTab, reqs,
                       calls>>
        /\ UNCHANGED <<chatVars, testVars, uploads, dropped, toasted, used,
                       viewVars>>

\* setVariableSummary: the state setter of variableSummary
setVariableSummary(y) ==
    /\ variableSummary' = y
    /\ UNCHANGED <<ctxVars, dataLoaded, fileType>>

SetVariableSummary ==
    \E y \in SummaryInputs :
        /\ setVariableSummary(y)
        /\ UNCHANGED <<builderVars, chatVars, testVars, uploads, dropped,
                       toasted, used, viewVars>>

\* setFileType: the state setter of fileType
SetFileType ==
    \E t \in {NullVar, "spss", "csv"} :
        /\ fileType' = t
        /\ UNCHANGED <<variableSummary, used>>
        /\ UNCHANGED <<ctxVars, builderVars, chatVars, uploadVars, testVars,
                       viewVars>>

NextProvider == UseData \/ SetSampleData \/ SetVariableSummary \/ SetFileType

SpecProvider == Init /\ [][NextProvider]_vars

\* C21: useData called without a DataProvider above throws 'useData must be
\* used within a DataProvider' and returns nothing; called under a
\* DataProvider it does not throw.
C21_UseDataOutsideProviderThrows ==
    used.called =>
        IF used.provided
        THEN ~used.thrown
        ELSE used.thrown /\ used.message = MustBeUsedWithin

\* C21's case: useData has been called without a provider and has thrown,
\* while the provider's state has been set
C21_Witness ==
    /\ used.called
    /\ ~used.provided
    /\ used.thrown
    /\ sampleData.present

\* The fields of the data context
ContextFields ==
    <<data, isLoading, error, dataFile, dataLoaded, variables, sampleData,
      variableSummary, fileType>>

\* C22: a fresh DataProvider has null sampleData and null variableSummary;
\* setSampleData(x) makes sampleData x, setVariableSummary(y) makes
\* variableSummary y, and each leaves the other fields of the context as they
\* are.
C22_SettersSetOneField ==
    /\ sampleData = NoSample /\ variableSummary = NoSummary
    /\ [][(sampleData' # sampleData =>
              (/\ sampleData' \in SampleInputs
               /\ UNCHANGED <<data, isLoading, error, dataFile, dataLoaded,
                              variables, variableSummary, fileType>>))
           /\
           (variableSummary' # variableSummary =>
              (/\ variableSummary' \in SummaryInputs
               /\ UNCHANGED <<data, isLoading, error, dataFile, dataLoaded,
                              variables, sampleData, fileType>>))]_vars

\* C22's case: both setters have been called with values that are not null
C22_Witness ==
    /\ sampleData = [present |-> TRUE, rows |-> <<[test |-> JSNum(1)]>>]
    /\ variableSummary.present
    /\ variableSummary.stats # <<>>
    /\ ~dataLoaded
    /\ variables = <<>>

-----------------------------------------------------------------------------
(* The cross-tab and its margins *)

MaxRespondents == 3

RowCategories == {"M", "F"}
ColCategories == {"18-24", "25-34"}

\* A respondent: its row category, its column category and its weight
Respondents == [row : RowCategories, col : ColCategories, weight : {1, 2}]

\* The sum of f over the keys in S
RECURSIVE SumOver(_, _)
SumOver(f, S) ==
    IF S = {} THEN 0
    ELSE LET k == CHOOSE k \in S : TRUE
         IN  f[k] + SumOver(f, S \ {k})

\* table[col_key][row_key]: the weighted count of the respondents of the cell
Cell(respondents, c, r) ==
    SumOver([i \in 1..Len(respondents) |->
                IF respondents[i].col = c /\ respondents[i].row = r
                THEN respondents[i].weight ELSE 0],
            1..Len(respondents))

FrequencyTable(respondents) ==
    [c \in ColCategories |-> [r \in RowCategories |-> Cell(respondents, c, r)]]

\* row_totals as they would be if each summed its column's cells
row_totals_ofColumn(table, rows, cols) ==
    [r \in rows |->
        SumOver(table[CHOOSE c \in cols : TRUE], rows)]

\* row_totals[row_key] = sum over col_key of table[col_key][row_key]
row_totals(table, rows, cols) ==
    [r \in rows |-> SumOver([c \in cols |-> table[c][r]], cols)]

\* col_totals[col_key] = sum over row_key of table[col_key][row_key]
col_totals(table, rows, cols) ==
    [c \in cols |-> SumOver(table[c], rows)]

\* grand_total = sum over all cells
grand_total(table, rows, cols) ==
    SumOver([cell \in cols \X rows |-> table[cell[1]][cell[2]]], cols \X rows)

\* The result assembled from the frequency table and its margins
CrossTabResult(respondents) ==
    LET table == FrequencyTable(respondents)
    IN  [rows |-> RowCategories, cols |-> ColCategories, table |-> table,
         row_totals |-> row_totals(table, RowCategories, ColCategories),
         col_totals |-> col_totals(table, RowCategories, ColCategories),
         grand_total |-> grand_total(table, RowCategories, ColCategories)]

\* crossTabData of the statistical-testing guide: observed [[10, 20],
\* [30, 40]], row_totals [30, 70], col_totals [40, 60], grand_total 100
ExampleCrossTab ==
    [rows |-> {"Group A", "Group B"},
     cols |-> {"Category 1", "Category 2"},
     table |-> [c \in {"Category 1", "Category 2"} |->
                  [r \in {"Group A", "Group B"} |->
                      IF c = "Category 1"
                      THEN (IF r = "Group A" THEN 10 ELSE 30)
                      ELSE (IF r = "Group A" THEN 20 ELSE 40)]],
     row_totals |-> [r \in {"Group A", "Group B"} |->
                       IF r = "Group A" THEN 30 ELSE 70],
     col_totals |-> [c \in {"Category 1", "Category 2"} |->
                       IF c = "Category 1" THEN 40 ELSE 60],
     grand_total |-> 100]

\* A request is answered: the cross-tab of its respondents, constructed once
Tabulate ==
    \E respondents \in SeqsUpTo(Respondents, MaxRespondents) :
        /\ crosstab = NoCrossTab
        /\ crosstab' = CrossTabResult(respondents)
        /\ UNCHANGED <<rowPct, tableTab>>
        /\ UNCHANGED <<ctxVars, builderVars, chatVars, uploadVars, testVars,
                       provVars>>

\* The guide's crossTabData is handed to performTest
TestExample ==
    /\ crosstab' = ExampleCrossTab
    /\ performTest

NextCrossTab == Tabulate \/ TestExample \/ TestSettled

SpecCrossTab == Init /\ [][NextCrossTab]_vars

-----------------------------------------------------------------------------
(* isLoading and the requests of Run Analysis *)

\* Every request in flight is answered, refused or left without a response
\* in the end
SpecLoading == Spec /\ WF_vars(Response)

-----------------------------------------------------------------------------
(* The workspace: its tabs, the display options and the ResultsViewer *)

WorkspaceTabs == {"variables", "crosstab", "results", "assistant"}

\* A click on one of the sidebar's buttons
SelectTab ==
    \E tab \in WorkspaceTabs :
        /\ tab # activeTab
        /\ activeTab' = tab
        /\ tableTab' = mountedTab(tab)
        /\ UNCHANGED <<rowVariables, columnVariables, bannerVariables,
                       customVariables, weightVar, subgroupVar, subgroupValues,
                       availableSubgroupValues, reqs, calls>>
        /\ UNCHANGED <<rowPct, crosstab>>
        /\ UNCHANGED <<ctxVars, chatVars, uploadVars, testVars, provVars>>

\* The Row Percentages checkbox: setRowPct(checked === true)
ToggleRowPct ==
    /\ rowPct' = ~rowPct
    /\ UNCHANGED <<tableTab, crosstab>>
    /\ UNCHANGED <<ctxVars, builderVars, chatVars, uploadVars, testVars,
                   provVars>>

\* hasResults: !!data && data.table
hasResults == data.kind = "result"

\* The viewer renders its tabs and its table: it is mounted and returns
\* neither 'Running analysis...' nor the error nor 'No Results Yet'
ShowsTable ==
    /\ activeTab = "results"
    /\ ~isLoading
    /\ ~Truthy(error)
    /\ hasResults

\* The triggers of the table tabs: Frequency always, Row % when the result has
\* percentages.row_pct
TabsTriggers ==
    {"frequency"} \cup (IF data.res.row_pct THEN {"row_pct"} ELSE {})

\* A click on one of the table tabs
SetTableTab ==
    \E tab \in TabsTriggers :
        /\ ShowsTable
        /\ tab # tableTab
        /\ tableTab' = tab
        /\ UNCHANGED <<rowPct, crosstab>>
        /\ UNCHANGED <<ctxVars, builderVars, chatVars, uploadVars, testVars,
                       provVars>>

\* getTable() || {}: the table of the selected tab, or an empty one when the
\* result has none for it
getTable ==
    IF tableTab = "frequency" THEN "table"
    ELSE IF tableTab = "row_pct" /\ data.res.row_pct THEN "row_pct"
    ELSE "{}"

\* The Custom Variable Builder is in the variables tab
CreateInVariablesTab == activeTab = "variables" /\ CreateCustomVariable

NextWorkspace ==
    \/ UploadComplete("b.csv")
    \/ AddRowVariable
    \/ AddColumnVariable
    \/ ToggleRowPct
    \/ RunAnalysis
    \/ Response
    \/ SelectTab
    \/ SetTableTab
    \/ CreateInVariablesTab

SpecWorkspace == Init /\ [][NextWorkspace]_vars

\* C25: whenever addCustomVariable is called with data set, data is an array
\* of rows, and the call does not throw.
C25_DataIsRowsWhenDerived ==
    [][variables' = Append(variables, SexIsF) =>
          /\ data.kind \in {"null", "rows"}
          /\ threw' = threw]_vars

\* C29: whenever the viewer shows its table, the selected table tab names a
\* table of the current result, so the table shown is not the empty one.
C29_SelectedTableExists ==
    ShowsTable => (tableTab \in TabsTriggers /\ getTable # "{}")

-----------------------------------------------------------------------------
(* The error a failed request leaves (SpecBuilder) *)

\* C26: after a failed crosstab request the error of the context is a string
\* or null, never an array or an object, whatever the detail of the server's
\* answer is, and the catch block does not throw.
C26_ErrorIsStringOrNull ==
    /\ error.t \in {"null", "string"}
    /\ ~threw

-----------------------------------------------------------------------------
(* Claims about overlapping requests of the assistant (SpecAI) *)

\* The requests whose fetch has not been aborted
InFlight == {i \in 1..Len(aiReqs) : aiReqs[i].pc # "aborted"}

\* C27: at most one request of the assistant is in flight, and isLoading is
\* not cleared while a request is still pending.
C27_OneRequestInFlight ==
    /\ Cardinality(InFlight) <= 1
    /\ InFlight # {} => aiLoading

\* The positions of the messages a step modifies
Modified == {k \in 1..Len(messages) : messages'[k] # messages[k]}

\* C28: a step that handles the response, the error or the timeout of a
\* request modifies one message at most, the loading message of that request,
\* and never a message of the user.
C28_OnlyOwnLoadingMessage ==
    [][Len(messages') = Len(messages) =>
          /\ Cardinality(Modified) <= 1
          /\ \A k \in Modified :
                /\ messages[k].sender = "agent"
                /\ messages[k].status = "loading"]_vars

-----------------------------------------------------------------------------
(* Claims about the subgroup values of a request (SpecBuilder) *)

\* The values the selected subgroup variable takes in the sample data
SampleValues == uniqueVals(subgroupVar, sampleData)

\* C30: the selected subgroup values are values the selected subgroup variable
\* takes in the sample data, in the form and in every request that is built,
\* and a step that changes the subgroup variable or the sample data leaves no
\* value selected.
C30_SubgroupValuesFromSample ==
    /\ \A k \in 1..Len(subgroupValues) :
          includes(SampleValues, subgroupValues[k])
    /\ [][Sends =>
            /\ Sent.payload.subgroup.present => Sent.payload.subgroup.var = subgroupVar
            /\ \A k \in 1..Len(Sent.payload.subgroup.values) :
                  includes(SampleValues, Sent.payload.subgroup.values[k])]_vars
    /\ [][(subgroupVar' # subgroupVar \/ sampleData' # sampleData)
              => subgroupValues' = <<>>]_vars

\* C30's case: after a first subgroup variable with a value selected, the
\* subgroup variable was changed to sex, one of its values was selected and the
\* request was sent with that one value.
C30_Witness ==
    /\ Len(reqs) = 1
    /\ reqs[1].payload.subgroup.present
    /\ ~reqs[1].payload.subgroup.isList
    /\ reqs[1].payload.subgroup.var = "sex"
    /\ subgroupVar = "sex"
    /\ Len(SampleValues) > 1
    /\ includes(SampleValues, reqs[1].payload.subgroup.values[1])

====
